---- MODULE Spec2Model ----
(***************************************************************************)
(* A model of the three scripts of the lecture transcription repository:   *)
(*   note_from_transcription.py  (LectureSummarizer, retry wrapper, HTML)   *)
(*   video_transcribe.py         (VideoTranscriber, folder batch mode)      *)
(*   real_time_transcription.py  (RealtimeTranscriber, producer/consumer)   *)
(* The scripts share no code, so each has its own specification over its    *)
(* own group of variables; the other groups stay at their idle values.      *)
(***************************************************************************)
EXTENDS Integers, Sequences, FiniteSets, TLC

VARIABLES
    \* ---- RateLimitedGoogleGenerativeAI.generate_content under tenacity.retry
    rpc,             \* position inside the retry loop
    attempt_number,  \* tenacity's retry_state.attempt_number
    attempts,        \* history: how many times the wrapped body was entered
    waits,           \* history: the sleeps computed between attempts
    delay,           \* the random.uniform(2, 4) pre-delay of the current attempt
    last_exc,        \* kind of the last exception raised by the wrapped body
    \* ---- LectureSummarizer main script
    spc,             \* position in __main__ / run()
    text_file,       \* self.text_file, a path as a sequence of tokens
    transcript_exists, \* <text_file>.txt is present
    n_splits,        \* len(self.splits)
    map_done,        \* map calls of chain.invoke that returned
    summary,         \* value returned by summarize()
    summarize_raised,\* phase in which chain.invoke raised ("none" if it did not)
    summary_txt,     \* content of <text_file>_summary.txt ("absent" if no file)
    summary_html,    \* content of <text_file>_summary.html ("absent" if no file)
    stray_html,      \* content of the html file convert_to_html writes elsewhere
    written,         \* history: files written by this script run
    render_results,  \* history: outcome of each convert_to_html call
    \* ---- VideoTranscriber.transcribe_folder
    fpc,             \* position in transcribe_folder / transcribe_video
    mode,            \* the method that was entered: "folder", "one" or "video"
    output_path,     \* the parameter output_path of transcribe_video
    entries,         \* history: the methods entered so far
    fs,              \* the paths that exist in the folder
    temp_exists,     \* temp_audio.mp3 exists
    model_loaded,    \* self.model is not None
    run_no,          \* which run of the script this is
    remaining,       \* entries of os.listdir not yet visited by the loop
    cur,             \* the loop variable `file`
    calls,           \* history: transcribe_video calls made by this run
    skipped,         \* history: files that took the "already exists" branch in this run
    visited,         \* history: video files the loop of this run reached
    failed,          \* history: videos whose latest transcribe_video raised
    prev_clean,      \* history: the previous run finished without an exception
    after_ok,        \* history: the last step was a successful return of transcribe_video
    \* ---- RealtimeTranscriber
    mpc,             \* position of the main thread
    cpc,             \* position of the process_audio thread
    is_recording,    \* self.is_recording
    audio_queue,     \* self.audio_queue
    stream_open,     \* the PyAudio stream delivers callbacks
    attrs,           \* the attributes stream / process_thread assigned so far
    produced,        \* frames delivered by the capture device so far
    idx,             \* the for loop's counter `_`
    audio_data,      \* the list audio_data of the current window
    late,            \* history: frames enqueued while is_recording was already False
    last_batch,      \* history: the argument of the latest model.transcribe call
    stop_mid,        \* history: stop was requested while the for loop was mid-window
    start_returned,  \* history: start_transcription has returned
    \* ---- convert_to_html pre-processing
    repc,            \* position: "input" or "done"
    summary_text,    \* the text read from the summary file
    sub_text         \* the result of re.sub

retryVars == <<rpc, attempt_number, attempts, waits, delay, last_exc>>
sumVars   == <<spc, text_file, transcript_exists, n_splits, map_done, summary,
               summarize_raised, summary_txt, summary_html, stray_html, written,
               render_results>>
folderVars == <<fpc, mode, output_path, entries, fs, temp_exists, model_loaded,
                run_no, remaining, cur, calls, skipped, visited, failed, prev_clean,
                after_ok>>
rtVars    == <<mpc, cpc, is_recording, audio_queue, stream_open, attrs, produced, idx,
               audio_data, late, last_batch, stop_mid, start_returned>>
reVars    == <<repc, summary_text, sub_text>>
vars      == <<retryVars, sumVars, folderVars, rtVars, reVars>>
nonRetryVars  == <<sumVars, folderVars, rtVars, reVars>>
nonSumVars    == <<retryVars, folderVars, rtVars, reVars>>
nonFolderVars == <<retryVars, sumVars, rtVars, reVars>>
nonRTVars     == <<retryVars, sumVars, folderVars, reVars>>
nonReVars     == <<retryVars, sumVars, folderVars, rtVars>>

\* The default None of the parameter output_path.
NoOutputPath == <<>>

\* No recognition call has been made yet.
NoBatch == [frames |-> <<>>, before_stop |-> FALSE]

Max(a, b) == IF a >= b THEN a ELSE b
Min(a, b) == IF a <= b THEN a ELSE b

(***************************************************************************)
(* Idle values: the state of a script that is not running.                 *)
(***************************************************************************)
IdleRetry ==
    /\ rpc = "idle" /\ attempt_number = 0 /\ attempts = 0
    /\ waits = <<>> /\ delay = 0 /\ last_exc = "none"
IdleSum ==
    /\ spc = "idle" /\ text_file = <<>> /\ stray_html = "absent"
    /\ transcript_exists = FALSE /\ n_splits = 0 /\ map_done = 0
    /\ summary = "none" /\ summarize_raised = "none"
    /\ summary_txt = "absent" /\ summary_html = "absent"
    /\ written = {} /\ render_results = <<>>
IdleFolder ==
    /\ fpc = "idle" /\ mode = "none" /\ output_path = NoOutputPath /\ entries = {}
    /\ fs = {} /\ temp_exists = FALSE /\ model_loaded = FALSE
    /\ run_no = 0 /\ remaining = {} /\ cur = <<>> /\ calls = 0
    /\ skipped = {} /\ visited = {} /\ failed = {} /\ prev_clean = FALSE
    /\ after_ok = FALSE
IdleRT ==
    /\ mpc = "idle" /\ cpc = "idle" /\ is_recording = FALSE /\ audio_queue = <<>>
    /\ stream_open = FALSE /\ attrs = {} /\ produced = 0 /\ idx = 0
    /\ audio_data = <<>> /\ late = {} /\ last_batch = NoBatch /\ stop_mid = FALSE
    /\ start_returned = FALSE
IdleRe ==
    /\ repc = "idle" /\ summary_text = <<>> /\ sub_text = <<>>

(***************************************************************************)
(* 1. The retry wrapper of generate_content (note_from_transcription.py).   *)
(*    tenacity.retry(wait=wait_exponential(multiplier=1, min=4, max=10),    *)
(*                   stop=stop_after_attempt(10),                           *)
(*                   retry=retry_if_exception_type(Exception))              *)
(***************************************************************************)
Multiplier == 1
WaitMin == 4
WaitMax == 10
ExpBase == 2
MaxAttemptNumber == 10
DelayLow == 2
DelayHigh == 4

\* The kinds of exception the external call can raise.  KeyboardInterrupt is a
\* BaseException that is not an Exception; the other two are Exceptions.
ExceptionKinds == {"ResourceExhausted", "PermissionDenied", "KeyboardInterrupt"}

\* retry_if_exception_type(Exception): isinstance(e, Exception)
RetryIfException(kind) == kind \in {"ResourceExhausted", "PermissionDenied"}

\* stop_after_attempt(10): retry_state.attempt_number >= max_attempt_number
StopAfterAttempt(n) == n >= MaxAttemptNumber

\* A wait that forgets the ceiling: multiplier * 2^(n-1), floored at min only.
WaitExponentialNoCeiling(n) == Max(Max(0, WaitMin), Multiplier * ExpBase ^ (n - 1))

\* wait_exponential.__call__: exp = exp_base ** (attempt_number - 1);
\* result = multiplier * exp; return max(max(0, min), min(result, max))
WaitExponential(n) ==
    Max(Max(0, WaitMin), Min(Multiplier * ExpBase ^ (n - 1), WaitMax))

InitRetry ==
    /\ rpc = "delay" /\ attempt_number = 1 /\ attempts = 0
    /\ waits = <<>> /\ delay = 0 /\ last_exc = "none"
    /\ IdleSum /\ IdleFolder /\ IdleRT /\ IdleRe

\* line 48: time.sleep(random.uniform(2, 4)) at the start of every attempt
RandomDelay ==
    /\ rpc = "delay"
    /\ \E d \in DelayLow..DelayHigh : delay' = d
    /\ attempts' = attempts + 1
    /\ rpc' = "call"
    /\ UNCHANGED <<attempt_number, waits, last_exc>>
    /\ UNCHANGED nonRetryVars

\* line 49: super().generate_content returns
CallReturns ==
    /\ rpc = "call"
    /\ rpc' = "returned"
    /\ UNCHANGED <<attempt_number, attempts, waits, delay, last_exc>>
    /\ UNCHANGED nonRetryVars

\* line 49 raises; tenacity decides: propagate, give up, or compute the wait,
\* call before_sleep and prepare the next attempt (attempt_number + 1)
CallRaises ==
    /\ rpc = "call"
    /\ \E kind \in ExceptionKinds :
        /\ last_exc' = kind
        /\ IF ~RetryIfException(kind) THEN
                /\ rpc' = "raised"
                /\ UNCHANGED <<waits, attempt_number>>
           ELSE IF StopAfterAttempt(attempt_number) THEN
                /\ rpc' = "raised"
                /\ UNCHANGED <<waits, attempt_number>>
           ELSE
                /\ rpc' = "sleep"
                /\ waits' = Append(waits, WaitExponential(attempt_number))
                /\ attempt_number' = attempt_number + 1
    /\ UNCHANGED <<attempts, delay>>
    /\ UNCHANGED nonRetryVars

\* tenacity's backoff sleep ends and the next attempt begins
SleepThenRetry ==
    /\ rpc = "sleep"
    /\ rpc' = "delay"
    /\ UNCHANGED <<attempt_number, attempts, waits, delay, last_exc>>
    /\ UNCHANGED nonRetryVars

\* Ctrl+C during tenacity's backoff sleep: KeyboardInterrupt leaves the call
SleepInterrupted ==
    /\ rpc = "sleep"
    /\ last_exc' = "KeyboardInterrupt"
    /\ rpc' = "raised"
    /\ UNCHANGED <<attempt_number, attempts, waits, delay>>
    /\ UNCHANGED nonRetryVars

NextRetry ==
    \/ RandomDelay
    \/ CallReturns
    \/ CallRaises
    \/ SleepThenRetry
    \/ SleepInterrupted

SpecRetry == InitRetry /\ [][NextRetry]_vars

\* C1: one invocation of the retry-wrapped generate_content enters the wrapped
\* body at most 10 times, whatever the outcomes of the external call, and the
\* backoff waits between consecutive attempts are non-decreasing and never
\* exceed the ceiling max=10.
C1_BoundedMonotoneBackoff ==
    /\ attempts <= MaxAttemptNumber
    /\ attempt_number <= MaxAttemptNumber
    /\ \A k \in 1..Len(waits) : waits[k] <= WaitMax
    /\ \A k \in 1..Len(waits) : \A m \in k..Len(waits) : waits[k] <= waits[m]
    /\ (rpc = "raised" /\ RetryIfException(last_exc)) => attempts = MaxAttemptNumber

\* Ten failed attempts, nine waits, the failure surfaced to the caller.
C1_Witness ==
    /\ rpc = "raised"
    /\ attempts = MaxAttemptNumber
    /\ Len(waits) = MaxAttemptNumber - 1
    /\ waits[1] = WaitMin
    /\ waits[Len(waits)] = WaitMax

(***************************************************************************)
(* 2. LectureSummarizer: run(), summarize(), convert_to_html(),             *)
(*    delete_summary_text() and the __main__ sequence.                      *)
(*    File contents are tracked by their origin: "note" is a generated      *)
(*    summary, "error_text" is the string "Error generating summary: ...",  *)
(*    "old" is a file left by an earlier run of the script.                 *)
(***************************************************************************)
MaxSplits == 3

\* The values of text_file: without and with ".txt" inside the name.
TextFiles == { <<"lec">>, <<"lec", ".txt">> }

\* lines 132 and 199: f"{self.text_file}_summary.txt"
SummaryTxtPath(tf) == tf \o <<"_summary", ".txt">>

\* <text_file>_summary.html
SummaryHtmlPath(tf) == tf \o <<"_summary", ".html">>

\* line 170: input_file.replace('.txt', '.html'), every occurrence in the path
OutputHtmlPath(tf) ==
    LET input_file == SummaryTxtPath(tf)
    IN  [k \in 1..Len(input_file) |->
            IF input_file[k] = ".txt" THEN ".html" ELSE input_file[k]]

InitSum ==
    /\ spc = "read"
    /\ text_file \in TextFiles
    /\ transcript_exists \in BOOLEAN
    /\ n_splits = 0 /\ map_done = 0
    /\ summary = "none" /\ summarize_raised = "none"
    /\ summary_txt \in {"absent", "old"}
    /\ summary_html \in {"absent", "old"}
    /\ stray_html = "absent"
    /\ written = {} /\ render_results = <<>>
    /\ IdleRetry /\ IdleFolder /\ IdleRT /\ IdleRe

\* run() lines 191-196 return: the transcript is read, the documents, splits,
\* prompts, llm and chain are set up
ReadAndSetup ==
    /\ spc = "read"
    /\ transcript_exists
    /\ \E n \in 1..MaxSplits : n_splits' = n
    /\ spc' = "map"
    /\ UNCHANGED <<text_file, transcript_exists, map_done, summary, summarize_raised,
                   summary_txt, summary_html, stray_html, written, render_results>>
    /\ UNCHANGED nonSumVars

\* run() line 191 raises FileNotFoundError, caught at line 207; run() returns
ReadNotFound ==
    /\ spc = "read"
    /\ ~transcript_exists
    /\ spc' = "main_convert"
    /\ UNCHANGED <<text_file, transcript_exists, n_splits, map_done, summary,
                   summarize_raised, summary_txt, summary_html, stray_html, written,
                   render_results>>
    /\ UNCHANGED nonSumVars

\* run() lines 191-196 raise another Exception (a transcript that is not
\* UTF-8, a failing setup), caught at line 209; run() returns
ReadOrSetupRaises ==
    /\ spc = "read"
    /\ transcript_exists
    /\ spc' = "main_convert"
    /\ UNCHANGED <<text_file, transcript_exists, n_splits, map_done, summary,
                   summarize_raised, summary_txt, summary_html, stray_html, written,
                   render_results>>
    /\ UNCHANGED nonSumVars

\* summarize() lines 124-126: an Exception of chain.invoke is caught, and
\* f"Error generating summary: {str(e)}" is returned to run(), which goes on;
\* a BaseException that is no Exception is caught nowhere and ends the script
SummarizeOnError(kind) ==
    IF RetryIfException(kind)
    THEN [value |-> "error_text", next |-> "write"]
    ELSE [value |-> "none", next |-> "aborted"]

\* chain.invoke, map phase: one LLM call per split returns
MapCallReturns ==
    /\ spc = "map"
    /\ map_done < n_splits
    /\ map_done' = map_done + 1
    /\ UNCHANGED <<spc, text_file, transcript_exists, n_splits, summary,
                   summarize_raised, summary_txt, summary_html, stray_html, written,
                   render_results>>
    /\ UNCHANGED nonSumVars

\* chain.invoke, map phase: the LLM call for a split raises
MapCallRaises ==
    /\ spc = "map"
    /\ map_done < n_splits
    /\ summarize_raised' = "map"
    /\ \E kind \in ExceptionKinds :
        /\ summary' = SummarizeOnError(kind).value
        /\ spc' = SummarizeOnError(kind).next
    /\ UNCHANGED <<text_file, transcript_exists, n_splits, map_done,
                   summary_txt, summary_html, stray_html, written, render_results>>
    /\ UNCHANGED nonSumVars

\* chain.invoke, reduce phase returns; summarize returns summary['output_text']
ReduceCallReturns ==
    /\ spc = "map"
    /\ map_done = n_splits
    /\ summary' = "note"
    /\ spc' = "write"
    /\ UNCHANGED <<text_file, transcript_exists, n_splits, map_done, summarize_raised,
                   summary_txt, summary_html, stray_html, written, render_results>>
    /\ UNCHANGED nonSumVars

\* chain.invoke, reduce phase raises
ReduceCallRaises ==
    /\ spc = "map"
    /\ map_done = n_splits
    /\ summarize_raised' = "reduce"
    /\ \E kind \in ExceptionKinds :
        /\ summary' = SummarizeOnError(kind).value
        /\ spc' = SummarizeOnError(kind).next
    /\ UNCHANGED <<text_file, transcript_exists, n_splits, map_done,
                   summary_txt, summary_html, stray_html, written, render_results>>
    /\ UNCHANGED nonSumVars

\* run() lines 199-202: the value returned by summarize is written to the file
WriteSummary ==
    /\ spc = "write"
    /\ summary_txt' = summary
    /\ written' = written \cup {"txt"}
    /\ spc' = "run_convert"
    /\ UNCHANGED <<text_file, transcript_exists, n_splits, map_done, summary,
                   summarize_raised, summary_html, stray_html, render_results>>
    /\ UNCHANGED nonSumVars

\* run() lines 201-202 raise, caught at line 209, so that line 204 is skipped:
\* either open fails and the file is as before, or open(..., "w") has
\* truncated the file and the write fails, which leaves it empty
WriteSummaryRaises ==
    /\ spc = "write"
    /\ \/ UNCHANGED <<summary_txt, written>>
       \/ /\ summary_txt' = "empty"
          /\ written' = written \cup {"txt_truncated"}
    /\ spc' = "main_convert"
    /\ UNCHANGED <<text_file, transcript_exists, n_splits, map_done, summary,
                   summarize_raised, summary_html, stray_html, render_results>>
    /\ UNCHANGED nonSumVars

\* The html file of convert_to_html is <text_file>_summary.html.
WritesSummaryHtml == OutputHtmlPath(text_file) = SummaryHtmlPath(text_file)

\* convert_to_html lines 131-175 return: the summary is read, rendered and
\* written to the path of line 170
ConvertToHtml ==
    /\ spc \in {"run_convert", "main_convert"}
    /\ summary_txt # "absent"
    /\ IF WritesSummaryHtml
       THEN /\ summary_html' = summary_txt
            /\ written' = written \cup {"html"}
            /\ UNCHANGED stray_html
       ELSE /\ stray_html' = summary_txt
            /\ written' = written \cup {"stray_html"}
            /\ UNCHANGED summary_html
    /\ render_results' = Append(render_results, "ok")
    /\ spc' = IF spc = "run_convert" THEN "main_convert" ELSE "delete"
    /\ UNCHANGED <<text_file, transcript_exists, n_splits, map_done, summary,
                   summarize_raised, summary_txt>>
    /\ UNCHANGED nonSumVars

\* convert_to_html raises before the html file is opened (the summary file is
\* missing, markdown.markdown raises, the html file cannot be opened); the
\* exception is caught at line 177 and None is returned
ConvertRaises ==
    /\ spc \in {"run_convert", "main_convert"}
    /\ render_results' = Append(render_results, "error")
    /\ spc' = IF spc = "run_convert" THEN "main_convert" ELSE "delete"
    /\ UNCHANGED <<text_file, transcript_exists, n_splits, map_done, summary,
                   summarize_raised, summary_txt, summary_html, stray_html, written>>
    /\ UNCHANGED nonSumVars

\* convert_to_html lines 171-172: open(..., "w") has truncated the html file
\* and the write raises; caught at line 177, the file is left empty
ConvertWriteRaises ==
    /\ spc \in {"run_convert", "main_convert"}
    /\ summary_txt # "absent"
    /\ IF WritesSummaryHtml
       THEN /\ summary_html' = "empty"
            /\ written' = written \cup {"html_truncated"}
            /\ UNCHANGED stray_html
       ELSE /\ stray_html' = "empty"
            /\ written' = written \cup {"stray_html_truncated"}
            /\ UNCHANGED summary_html
    /\ render_results' = Append(render_results, "error")
    /\ spc' = IF spc = "run_convert" THEN "main_convert" ELSE "delete"
    /\ UNCHANGED <<text_file, transcript_exists, n_splits, map_done, summary,
                   summarize_raised, summary_txt>>
    /\ UNCHANGED nonSumVars

\* What os.remove of line 183 can do: remove the file, raise
\* FileNotFoundError, or raise another OSError (PermissionError for a file in
\* use or read-only, IsADirectoryError)
RemoveOutcomes(txt) ==
    IF txt = "absent" THEN {"FileNotFoundError", "OSError"} ELSE {"removed", "OSError"}

\* delete_summary_text lines 182-186: FileNotFoundError alone is caught; any
\* other exception of os.remove leaves the file and ends the script at line 221
DeleteSummaryText(txt, outcome) ==
    IF outcome = "OSError"
    THEN [txt |-> txt, next |-> "aborted"]
    ELSE [txt |-> "absent", next |-> "done"]

\* __main__ line 221: delete_summary_text returns
DeleteStep ==
    /\ spc = "delete"
    /\ \E outcome \in RemoveOutcomes(summary_txt) \ {"OSError"} :
        /\ summary_txt' = DeleteSummaryText(summary_txt, outcome).txt
        /\ spc' = DeleteSummaryText(summary_txt, outcome).next
    /\ UNCHANGED <<text_file, transcript_exists, n_splits, map_done, summary,
                   summarize_raised, summary_html, stray_html, written, render_results>>
    /\ UNCHANGED nonSumVars

\* __main__ line 221: os.remove raises an exception that is not caught
DeleteRaises ==
    /\ spc = "delete"
    /\ summary_txt' = DeleteSummaryText(summary_txt, "OSError").txt
    /\ spc' = DeleteSummaryText(summary_txt, "OSError").next
    /\ UNCHANGED <<text_file, transcript_exists, n_splits, map_done, summary,
                   summarize_raised, summary_html, stray_html, written, render_results>>
    /\ UNCHANGED nonSumVars

NextSum ==
    \/ ReadAndSetup
    \/ ReadNotFound
    \/ ReadOrSetupRaises
    \/ MapCallReturns
    \/ MapCallRaises
    \/ ReduceCallReturns
    \/ ReduceCallRaises
    \/ WriteSummary
    \/ WriteSummaryRaises
    \/ ConvertToHtml
    \/ ConvertRaises
    \/ ConvertWriteRaises
    \/ DeleteStep
    \/ DeleteRaises

SpecSum == InitSum /\ [][NextSum]_vars

\* C2: if chain.invoke raises in the map or the reduce phase, the run writes
\* nothing to <name>_summary.txt and produces no <name>_summary.html.
C2_NoNoteAfterFailedSummarize ==
    summarize_raised # "none" => ("txt" \notin written /\ "html" \notin written)

\* C7: if a convert_to_html call failed, then after run, convert_to_html and
\* delete_summary_text the summary file written by run() still exists.
C7_RenderErrorKeepsSummary ==
    (/\ spc = "done"
     /\ "txt" \in written
     /\ \E k \in 1..Len(render_results) : render_results[k] = "error")
        => summary_txt # "absent"

(***************************************************************************)
(* 3. The markdown pre-processing of convert_to_html (line 137):            *)
(*    re.sub of the pattern < group(star star, any run of non-newline       *)
(*    characters, star star), newline > by < group 1, newline, newline >.   *)
(*    A text is a sequence of characters; "a" stands for any character      *)
(*    that is neither an asterisk nor a newline.                            *)
(***************************************************************************)
MaxTextLen == 7

Chars == {"*", "a", "\n"}

Texts == UNION {[1..n -> Chars] : n \in 0..MaxTextLen}

\* The ends (index of the closing newline) of the matches of the pattern tried at
\* position p: `**`, then `.*` over characters other than newline, then `**`,
\* then the newline.
MatchEnds(t, p) ==
    {e \in (p + 4)..Len(t) :
        /\ t[p] = "*" /\ t[p + 1] = "*"
        /\ \A k \in (p + 2)..(e - 3) : t[k] # "\n"
        /\ t[e - 2] = "*" /\ t[e - 1] = "*"
        /\ t[e] = "\n"}

\* The pattern anchored at the start of a line, as if it began with ^ under
\* re.MULTILINE.
MatchEndAnchored(t, p) ==
    LET ends == IF p = 1 \/ t[p - 1] = "\n" THEN MatchEnds(t, p) ELSE {}
    IN  IF ends = {} THEN 0 ELSE CHOOSE e \in ends : \A f \in ends : f <= e

\* The match the regex engine reports at position p: `.*` is greedy, so the
\* longest one; 0 when the pattern does not match at p.
MatchEnd(t, p) ==
    LET ends == MatchEnds(t, p)
    IN  IF ends = {} THEN 0 ELSE CHOOSE e \in ends : \A f \in ends : f <= e

\* re.sub: scan from the left; at the leftmost match emit group 1 and two
\* newlines and go on after the match, otherwise copy one character.
RECURSIVE ReSubFrom(_, _)
ReSubFrom(t, p) ==
    IF p > Len(t) THEN <<>>
    ELSE LET e == MatchEnd(t, p)
         IN  IF e # 0
             THEN SubSeq(t, p, e - 1) \o <<"\n", "\n">> \o ReSubFrom(t, e + 1)
             ELSE <<t[p]>> \o ReSubFrom(t, p + 1)

ReSub(t) == ReSubFrom(t, 1)

InitRe ==
    /\ repc = "input"
    /\ summary_text \in Texts
    /\ sub_text = <<>>
    /\ IdleRetry /\ IdleSum /\ IdleFolder /\ IdleRT

\* convert_to_html line 137
Substitute ==
    /\ repc = "input"
    /\ sub_text' = ReSub(summary_text)
    /\ repc' = "done"
    /\ UNCHANGED summary_text
    /\ UNCHANGED nonReVars

NextRe == Substitute

SpecRe == InitRe /\ [][NextRe]_vars

\* The first character of the line that the newline at index e closes.
LineStart(t, e) ==
    LET nls == {k \in 1..(e - 1) : t[k] = "\n"}
    IN  IF nls = {} THEN 1 ELSE 1 + CHOOSE k \in nls : \A m \in nls : m <= k

\* The line closed by the newline at e is entirely bold: it begins with ** and
\* ends with a later **.
EntirelyBold(t, e) ==
    LET s == LineStart(t, e)
    IN  /\ e - s >= 4
        /\ t[s] = "*" /\ t[s + 1] = "*"
        /\ t[e - 2] = "*" /\ t[e - 1] = "*"

\* The line closed by the newline at e ends with ** and holds an earlier **,
\* anywhere in the line, that does not overlap it.
EndsWithBoldSpan(t, e) ==
    LET s == LineStart(t, e)
    IN  /\ e - s >= 4
        /\ t[e - 2] = "*" /\ t[e - 1] = "*"
        /\ \E q \in s..(e - 4) : t[q] = "*" /\ t[q + 1] = "*"

\* t with one more newline after each newline whose index is in the set where.
RECURSIVE WithExtraNewlines(_, _, _)
WithExtraNewlines(t, where, k) ==
    IF k > Len(t) THEN <<>>
    ELSE (IF k \in where THEN <<t[k], "\n">> ELSE <<t[k]>>)
            \o WithExtraNewlines(t, where, k + 1)

\* C9 as stated: the pre-processing adds one newline after a line exactly when
\* the line is entirely bold (the whole line is **...**) and is followed by a
\* newline; every other line is unchanged.
C9_OnlyEntirelyBoldLines ==
    repc = "done" =>
        sub_text = WithExtraNewlines(summary_text,
                        {e \in 1..Len(summary_text) :
                            summary_text[e] = "\n" /\ EntirelyBold(summary_text, e)}, 1)

\* C9 amended: the pre-processing adds one newline after a line exactly when the
\* line ends with ** preceded, anywhere on the same line, by another ** that
\* does not overlap it, and is followed by a newline; all else is unchanged.
C9_LinesEndingWithBoldSpan ==
    repc = "done" =>
        sub_text = WithExtraNewlines(summary_text,
                        {e \in 1..Len(summary_text) :
                            summary_text[e] = "\n" /\ EndsWithBoldSpan(summary_text, e)}, 1)

\* A line with text before its bold span (a**a**) got the extra newline.
C9_Witness ==
    /\ repc = "done"
    /\ \E e \in 1..Len(summary_text) :
        /\ summary_text[e] = "\n"
        /\ EndsWithBoldSpan(summary_text, e)
        /\ ~EntirelyBold(summary_text, e)
        /\ summary_text[LineStart(summary_text, e)] = "a"
    /\ Len(sub_text) = Len(summary_text) + 1

(***************************************************************************)
(* 4. VideoTranscriber.transcribe_folder and transcribe_video               *)
(*    (video_transcribe.py).  A path is a sequence of tokens: the folder    *)
(*    (with its separator), pieces of a file name, and extensions, which    *)
(*    are the only tokens that hold (and begin with) a dot.                 *)
(***************************************************************************)
MaxRuns == 2

Folder == "Recordings/"

ExtTokens == {".mp4", ".mkv", ".txt"}

\* The file names the folder may hold at the start.
Names == { <<"a", ".mp4">>, <<"a", ".mkv">>, <<"b", ".mp4">>, <<".mp4">>,
           <<"a", "_transcription", ".txt">> }

\* os.path.join(folder_path, file)
Join(folder, file) == <<folder>> \o file

\* str.endswith
EndsWith(name, ext) == Len(name) > 0 /\ name[Len(name)] = ext

\* os.path.splitext(p)[0]: cut at the last dot of the last path component,
\* unless nothing but dots precedes it in that component.
SplitextRoot(p) ==
    LET seps == {k \in 1..Len(p) : p[k] = Folder}
        dots == {k \in 1..Len(p) : p[k] \in ExtTokens}
        sepIndex == IF seps = {} THEN 0 ELSE CHOOSE k \in seps : \A m \in seps : m <= k
        dotIndex == IF dots = {} THEN 0 ELSE CHOOSE k \in dots : \A m \in dots : m <= k
    IN  IF dotIndex > sepIndex + 1 THEN SubSeq(p, 1, dotIndex - 1) ELSE p

\* An output path built without splitext: "<video_path>_transcription.txt".
OutputPathKeepsExtension(video_path, given) ==
    IF given = NoOutputPath
    THEN video_path \o <<"_transcription", ".txt">>
    ELSE given

\* transcribe_video lines 58-59
OutputPath(video_path, given) ==
    IF given = NoOutputPath
    THEN SplitextRoot(video_path) \o <<"_transcription", ".txt">>
    ELSE given

\* The values of output_path in a call of transcribe_video from outside.
OutputPaths == {NoOutputPath, <<Folder, "out", ".txt">>,
                <<Folder, "a", "_transcription", ".txt">>}

\* transcribe_folder lines 76-77: the path whose existence is tested
TranscriptionPath(folder, file) ==
    Join(folder, SplitextRoot(file) \o <<"_transcription", ".txt">>)

\* transcribe_folder line 74
IsVideo(file) == EndsWith(file, ".mp4") \/ EndsWith(file, ".mkv")

\* os.listdir(folder_path)
ListDir(files, folder) == {Tail(q) : q \in {r \in files : r[1] = folder}}

InitFolder ==
    /\ fpc = "start"
    /\ mode = "none" /\ output_path = NoOutputPath /\ entries = {}
    /\ fs \in SUBSET {Join(Folder, n) : n \in Names}
    /\ temp_exists = FALSE /\ model_loaded = FALSE
    /\ run_no = 0 /\ remaining = {} /\ cur = <<>> /\ calls = 0
    /\ skipped = {} /\ visited = {} /\ failed = {} /\ prev_clean = FALSE
    /\ after_ok = FALSE
    /\ IdleRetry /\ IdleSum /\ IdleRT /\ IdleRe

\* __main__ lines 100-101: a new process, a new VideoTranscriber, os.listdir
StartRun ==
    /\ fpc \in {"start", "aborted", "finished"}
    /\ run_no < MaxRuns
    /\ run_no' = run_no + 1
    /\ prev_clean' = (fpc = "finished" /\ mode = "folder")
    /\ mode' = "folder"
    /\ entries' = entries \cup {"folder"}
    /\ model_loaded' = FALSE
    /\ remaining' = ListDir(fs, Folder)
    /\ calls' = 0 /\ skipped' = {} /\ visited' = {}
    /\ after_ok' = FALSE
    /\ fpc' = "loop"
    /\ UNCHANGED <<output_path, fs, temp_exists, cur, failed>>
    /\ UNCHANGED nonFolderVars

\* lines 93-94 (the call commented out in __main__): a new process, a new
\* VideoTranscriber, transcribe_video entered with no test of the output file
TranscribeOneVideo ==
    /\ fpc \in {"start", "aborted", "finished"}
    /\ run_no < MaxRuns
    /\ run_no' = run_no + 1
    /\ prev_clean' = FALSE
    /\ mode' = "one"
    /\ entries' = entries \cup {"one"}
    /\ output_path' = NoOutputPath
    /\ model_loaded' = FALSE
    /\ remaining' = {}
    /\ \E file \in {n \in Names : IsVideo(n)} :
        /\ cur' = file
        /\ visited' = {file}
    /\ calls' = 1 /\ skipped' = {}
    /\ after_ok' = FALSE
    /\ fpc' = "extract"
    /\ UNCHANGED <<fs, temp_exists, failed>>
    /\ UNCHANGED nonFolderVars

\* line 25: transcribe_video called from outside, with or without output_path
TranscribeVideo ==
    /\ fpc \in {"start", "aborted", "finished"}
    /\ run_no < MaxRuns
    /\ run_no' = run_no + 1
    /\ prev_clean' = FALSE
    /\ mode' = "video"
    /\ entries' = entries \cup {"video"}
    /\ output_path' \in OutputPaths
    /\ model_loaded' = FALSE
    /\ remaining' = {}
    /\ \E file \in {n \in Names : IsVideo(n)} :
        /\ cur' = file
        /\ visited' = {file}
    /\ calls' = 1 /\ skipped' = {}
    /\ after_ok' = FALSE
    /\ fpc' = "extract"
    /\ UNCHANGED <<fs, temp_exists, failed>>
    /\ UNCHANGED nonFolderVars

\* lines 73-74: the next entry is not a video
LoopSkipOther ==
    /\ fpc = "loop"
    /\ \E file \in remaining :
        /\ ~IsVideo(file)
        /\ remaining' = remaining \ {file}
    /\ after_ok' = FALSE
    /\ UNCHANGED <<mode, output_path, entries, fpc, fs, temp_exists, model_loaded,
                   run_no, cur, calls, skipped, visited, failed, prev_clean>>
    /\ UNCHANGED nonFolderVars

\* lines 75-79: the transcription file of the next video exists
LoopAlreadyExists ==
    /\ fpc = "loop"
    /\ \E file \in remaining :
        /\ IsVideo(file)
        /\ TranscriptionPath(Folder, file) \in fs
        /\ remaining' = remaining \ {file}
        /\ skipped' = skipped \cup {file}
        /\ visited' = visited \cup {file}
    /\ after_ok' = FALSE
    /\ UNCHANGED <<mode, output_path, entries, fpc, fs, temp_exists, model_loaded,
                   run_no, cur, calls, failed, prev_clean>>
    /\ UNCHANGED nonFolderVars

\* lines 80-81: transcribe_video is called for the next video
LoopCallTranscribe ==
    /\ fpc = "loop"
    /\ \E file \in remaining :
        /\ IsVideo(file)
        /\ TranscriptionPath(Folder, file) \notin fs
        /\ remaining' = remaining \ {file}
        /\ visited' = visited \cup {file}
        /\ cur' = file
    /\ calls' = calls + 1
    /\ output_path' = NoOutputPath
    /\ after_ok' = FALSE
    /\ fpc' = "extract"
    /\ UNCHANGED <<mode, entries, fs, temp_exists, model_loaded, run_no, skipped,
                   failed, prev_clean>>
    /\ UNCHANGED nonFolderVars

\* line 84: the listing is exhausted
LoopEnd ==
    /\ fpc = "loop"
    /\ remaining = {}
    /\ fpc' = "finished"
    /\ after_ok' = FALSE
    /\ UNCHANGED <<mode, output_path, entries, fs, temp_exists, model_loaded, run_no,
                   remaining, cur, calls, skipped, visited, failed, prev_clean>>
    /\ UNCHANGED nonFolderVars

\* Where an exception raised inside transcribe_video ends up: neither
\* transcribe_folder nor transcribe_one_video has a handler, so it leaves the
\* loop and ends the script.
OnItemFailure == "aborted"

\* transcribe_video lines 36-41 return: temp_audio.mp3 is written
ExtractAudioOk ==
    /\ fpc = "extract"
    /\ temp_exists' = TRUE
    /\ fpc' = "recognize"
    /\ after_ok' = FALSE
    /\ UNCHANGED <<mode, output_path, entries, fs, model_loaded, run_no, remaining, cur,
                   calls, skipped, visited, failed, prev_clean>>
    /\ UNCHANGED nonFolderVars

\* lines 37-41 raise (unreadable input, no audio track, encoder error); a
\* failed write_audiofile may or may not leave a partial temp_audio.mp3
ExtractAudioRaises ==
    /\ fpc = "extract"
    /\ temp_exists' \in {temp_exists, TRUE}
    /\ failed' = failed \cup {cur}
    /\ fpc' = OnItemFailure
    /\ after_ok' = FALSE
    /\ UNCHANGED <<mode, output_path, entries, fs, model_loaded, run_no, remaining, cur,
                   calls, skipped, visited, prev_clean>>
    /\ UNCHANGED nonFolderVars

\* lines 43-52 return: the model is loaded if need be, the segments are joined
RecognizeOk ==
    /\ fpc = "recognize"
    /\ model_loaded' = TRUE
    /\ fpc' = "remove"
    /\ after_ok' = FALSE
    /\ UNCHANGED <<mode, output_path, entries, fs, temp_exists, run_no, remaining, cur,
                   calls, skipped, visited, failed, prev_clean>>
    /\ UNCHANGED nonFolderVars

\* lines 43-52 raise: in load_model (the model stays None) or in the recognition
RecognizeRaises ==
    /\ fpc = "recognize"
    /\ model_loaded' \in (IF model_loaded THEN {TRUE} ELSE BOOLEAN)
    /\ failed' = failed \cup {cur}
    /\ fpc' = OnItemFailure
    /\ after_ok' = FALSE
    /\ UNCHANGED <<mode, output_path, entries, fs, temp_exists, run_no, remaining, cur,
                   calls, skipped, visited, prev_clean>>
    /\ UNCHANGED nonFolderVars

\* lines 54-56 return: the clips are closed, temp_audio.mp3 is removed
RemoveTempOk ==
    /\ fpc = "remove"
    /\ temp_exists' = FALSE
    /\ fpc' = "write"
    /\ after_ok' = FALSE
    /\ UNCHANGED <<mode, output_path, entries, fs, model_loaded, run_no, remaining, cur,
                   calls, skipped, visited, failed, prev_clean>>
    /\ UNCHANGED nonFolderVars

\* lines 54-56 raise (the file is still held open): temp_audio.mp3 stays
RemoveTempRaises ==
    /\ fpc = "remove"
    /\ failed' = failed \cup {cur}
    /\ fpc' = OnItemFailure
    /\ after_ok' = FALSE
    /\ UNCHANGED <<mode, output_path, entries, fs, temp_exists, model_loaded, run_no,
                   remaining, cur, calls, skipped, visited, prev_clean>>
    /\ UNCHANGED nonFolderVars

\* lines 58-64 return: the transcription file is written, the path returned
\* to transcribe_folder's loop or to the other caller
WriteTranscriptOk ==
    /\ fpc = "write"
    /\ fs' = fs \cup {OutputPath(Join(Folder, cur), output_path)}
    /\ failed' = failed \ {cur}
    /\ after_ok' = TRUE
    /\ fpc' = IF mode = "folder" THEN "loop" ELSE "finished"
    /\ UNCHANGED <<mode, output_path, entries, temp_exists, model_loaded, run_no,
                   remaining, cur, calls, skipped, visited, prev_clean>>
    /\ UNCHANGED nonFolderVars

\* lines 61-62 raise: either open fails and nothing is created, or
\* open(..., "w") has created (or truncated) the output file and the write
\* fails, which leaves an empty or partial transcription file behind
WriteTranscriptRaises ==
    /\ fpc = "write"
    /\ \/ UNCHANGED fs
       \/ fs' = fs \cup {OutputPath(Join(Folder, cur), output_path)}
    /\ failed' = failed \cup {cur}
    /\ fpc' = OnItemFailure
    /\ after_ok' = FALSE
    /\ UNCHANGED <<mode, output_path, entries, temp_exists, model_loaded, run_no,
                   remaining, cur, calls, skipped, visited, prev_clean>>
    /\ UNCHANGED nonFolderVars

NextFolder ==
    \/ StartRun
    \/ TranscribeOneVideo
    \/ TranscribeVideo
    \/ LoopSkipOther
    \/ LoopAlreadyExists
    \/ LoopCallTranscribe
    \/ LoopEnd
    \/ ExtractAudioOk
    \/ ExtractAudioRaises
    \/ RecognizeOk
    \/ RecognizeRaises
    \/ RemoveTempOk
    \/ RemoveTempRaises
    \/ WriteTranscriptOk
    \/ WriteTranscriptRaises

SpecFolder == InitFolder /\ [][NextFolder]_vars

\* The video files of the folder.
Videos == {file \in ListDir(fs, Folder) : IsVideo(file)}

\* C3: when the previous run of transcribe_folder finished without a failure,
\* this run never calls transcribe_video, and when it has finished it has taken
\* the "already exists" branch for every .mp4/.mkv file of the folder.
C3_SecondRunTranscribesNothing ==
    (mode = "folder" /\ run_no >= 2 /\ prev_clean) =>
        /\ calls = 0
        /\ fpc \in {"loop", "finished"}
        /\ (fpc = "finished" => skipped = Videos)

\* A second run after a clean first one that transcribed b.mp4 and one more
\* video has finished, having skipped them all.
C3_Witness ==
    /\ mode = "folder" /\ run_no = 2 /\ prev_clean /\ fpc = "finished"
    /\ Cardinality(skipped) >= 2
    /\ <<Folder, "b", "_transcription", ".txt">> \in fs
    /\ <<Folder, ".mp4", "_transcription", ".txt">> \in fs

\* C4: a failure while transcribing one video does not abort its siblings: when
\* a run of transcribe_folder is over, every video of the folder was reached.
C4_SiblingsStillProcessed ==
    (mode = "folder" /\ run_no >= 1 /\ fpc \in {"aborted", "finished"}) =>
        Videos \subseteq visited

\* C10: after any sequence of transcribe_folder runs, a video whose
\* transcribe_video failed has no transcription file and is not skipped by a
\* later run, and temp_audio.mp3 does not exist when transcribe_video has
\* returned.
C10_FailedVideoHasNoTranscript ==
    /\ entries \subseteq {"folder"} =>
        \A v \in failed :
            /\ TranscriptionPath(Folder, v) \notin fs
            /\ v \notin skipped
    /\ after_ok => ~temp_exists

(***************************************************************************)
(* 5. RealtimeTranscriber (real_time_transcription.py): the main thread,    *)
(*    the PortAudio callback and the process_audio thread.  Frames are      *)
(*    numbered in the order the capture device delivers them.               *)
(***************************************************************************)
MaxFrames == 12

RATE == 16000
CHUNK == 1024 * 4
RECORD_SECONDS == 3

\* line 41: int(self.RATE / self.CHUNK * self.RECORD_SECONDS)
WindowFrames == (RATE * RECORD_SECONDS) \div CHUNK

InitRT ==
    /\ mpc = "start" /\ cpc = "not_started"
    /\ is_recording = FALSE /\ audio_queue = <<>>
    /\ stream_open = FALSE /\ attrs = {} /\ produced = 0 /\ idx = 0
    /\ audio_data = <<>> /\ late = {} /\ last_batch = NoBatch /\ stop_mid = FALSE
    /\ start_returned = FALSE
    /\ IdleRetry /\ IdleSum /\ IdleFolder /\ IdleRe

\* ---- main thread
\* start_transcription line 65
StartFlag ==
    /\ mpc = "start"
    /\ is_recording' = TRUE
    /\ mpc' = "open"
    /\ UNCHANGED <<cpc, audio_queue, stream_open, attrs, produced, idx, audio_data,
                   late, last_batch, stop_mid, start_returned>>
    /\ UNCHANGED nonRTVars

\* start_transcription lines 68-75, the call audio.open: from now on the
\* callback is invoked
OpenStream ==
    /\ mpc = "open"
    /\ stream_open' = TRUE
    /\ mpc' = "assign"
    /\ UNCHANGED <<cpc, is_recording, audio_queue, attrs, produced, idx, audio_data,
                   late, last_batch, stop_mid, start_returned>>
    /\ UNCHANGED nonRTVars

\* start_transcription line 68, the assignment self.stream = ...
AssignStream ==
    /\ mpc = "assign"
    /\ attrs' = attrs \cup {"stream"}
    /\ mpc' = "spawn"
    /\ UNCHANGED <<cpc, is_recording, audio_queue, stream_open, produced, idx,
                   audio_data, late, last_batch, stop_mid, start_returned>>
    /\ UNCHANGED nonRTVars

\* start_transcription line 78: the Thread object is created, not started
CreateThread ==
    /\ mpc = "spawn"
    /\ attrs' = attrs \cup {"process_thread"}
    /\ mpc' = "start_thread"
    /\ UNCHANGED <<cpc, is_recording, audio_queue, stream_open, produced, idx,
                   audio_data, late, last_batch, stop_mid, start_returned>>
    /\ UNCHANGED nonRTVars

\* The thread has run far enough for Thread._started to be set.
ThreadStarted == cpc \notin {"not_started", "bootstrap"}

\* start_transcription line 79, first half of Thread.start(): the thread is
\* spawned; start() then waits for the thread to set _started
StartThread ==
    /\ mpc = "start_thread"
    /\ cpc' = "bootstrap"
    /\ mpc' = "wait_started"
    /\ UNCHANGED <<is_recording, audio_queue, stream_open, attrs, produced, idx,
                   audio_data, late, last_batch, stop_mid, start_returned>>
    /\ UNCHANGED nonRTVars

\* start_transcription lines 79-81: the wait of Thread.start() is over, the
\* message is printed and start_transcription returns to the loop of __main__
StartReturns ==
    /\ mpc = "wait_started"
    /\ ThreadStarted
    /\ mpc' = "running"
    /\ start_returned' = TRUE
    /\ UNCHANGED <<cpc, is_recording, audio_queue, stream_open, attrs, produced, idx,
                   audio_data, late, last_batch, stop_mid>>
    /\ UNCHANGED nonRTVars

\* Where the main thread can be when KeyboardInterrupt is raised in the try
\* block of __main__ (lines 101-104): inside start_transcription or in the loop
InTry == {"start", "open", "assign", "spawn", "start_thread", "wait_started", "running"}

\* __main__ lines 105-106 and stop_transcription line 85
StopFlag ==
    /\ mpc \in InTry
    /\ is_recording' = FALSE
    /\ stop_mid' = (cpc \in {"for", "empty", "get"} /\ idx > 0 /\ idx < WindowFrames)
    /\ mpc' = "stop_stream"
    /\ UNCHANGED <<cpc, audio_queue, stream_open, attrs, produced, idx, audio_data,
                   late, last_batch, start_returned>>
    /\ UNCHANGED nonRTVars

\* stop_transcription lines 88-89
StopStream ==
    /\ mpc = "stop_stream"
    /\ "stream" \in attrs
    /\ stream_open' = FALSE
    /\ mpc' = "join"
    /\ UNCHANGED <<cpc, is_recording, audio_queue, attrs, produced, idx, audio_data,
                   late, last_batch, stop_mid, start_returned>>
    /\ UNCHANGED nonRTVars

\* stop_transcription line 88 raises AttributeError: self.stream was never
\* assigned; the script ends with a traceback, a stream that was opened stays
StopStreamRaises ==
    /\ mpc = "stop_stream"
    /\ "stream" \notin attrs
    /\ mpc' = "crashed"
    /\ UNCHANGED <<cpc, is_recording, audio_queue, stream_open, attrs, produced, idx,
                   audio_data, late, last_batch, stop_mid, start_returned>>
    /\ UNCHANGED nonRTVars

\* stop_transcription lines 92-96: join returns once process_audio has returned
JoinThread ==
    /\ mpc = "join"
    /\ "process_thread" \in attrs
    /\ cpc = "done"
    /\ mpc' = "stopped"
    /\ UNCHANGED <<cpc, is_recording, audio_queue, stream_open, attrs, produced, idx,
                   audio_data, late, last_batch, stop_mid, start_returned>>
    /\ UNCHANGED nonRTVars

\* stop_transcription line 92 raises: AttributeError when self.process_thread
\* was never assigned, RuntimeError when the thread has not set _started
\* (never spawned, or spawned and not yet run); terminate is not called, and
\* a thread that was spawned runs on
JoinRaises ==
    /\ mpc = "join"
    /\ ("process_thread" \notin attrs \/ ~ThreadStarted)
    /\ mpc' = "crashed"
    /\ UNCHANGED <<cpc, is_recording, audio_queue, stream_open, attrs, produced, idx,
                   audio_data, late, last_batch, stop_mid, start_returned>>
    /\ UNCHANGED nonRTVars

\* ---- capture thread
\* callback lines 32-34
Callback ==
    /\ stream_open
    /\ produced < MaxFrames
    /\ produced' = produced + 1
    /\ audio_queue' = Append(audio_queue, produced + 1)
    /\ late' = IF is_recording THEN late ELSE late \cup {produced + 1}
    /\ UNCHANGED <<attrs, mpc, cpc, is_recording, stream_open, idx, audio_data,
                   last_batch, stop_mid, start_returned>>
    /\ UNCHANGED nonRTVars

\* ---- process_audio thread
\* Thread.start() of line 79, in the new thread: _started is set and
\* process_audio is entered
ThreadBootstrap ==
    /\ cpc = "bootstrap"
    /\ cpc' = "while"
    /\ UNCHANGED <<mpc, is_recording, audio_queue, stream_open, attrs, produced, idx,
                   audio_data, late, last_batch, stop_mid, start_returned>>
    /\ UNCHANGED nonRTVars

\* A loop that never looks at the flag: while True.
WhileTestAlways(flag) == TRUE

\* line 38: while self.is_recording
WhileTest(flag) == flag

\* line 38 true, line 40
WhileEnter ==
    /\ cpc = "while"
    /\ WhileTest(is_recording)
    /\ audio_data' = <<>>
    /\ idx' = 0
    /\ cpc' = "for"
    /\ UNCHANGED <<mpc, is_recording, audio_queue, stream_open, attrs, produced, late,
                   last_batch, stop_mid, start_returned>>
    /\ UNCHANGED nonRTVars

\* line 38 false: process_audio returns
WhileExit ==
    /\ cpc = "while"
    /\ ~WhileTest(is_recording)
    /\ cpc' = "done"
    /\ UNCHANGED <<mpc, is_recording, audio_queue, stream_open, attrs, produced, idx,
                   audio_data, late, last_batch, stop_mid, start_returned>>
    /\ UNCHANGED nonRTVars

\* lines 41-42: one more iteration, the flag is still set
ForNext ==
    /\ cpc = "for"
    /\ idx < WindowFrames
    /\ is_recording
    /\ idx' = idx + 1
    /\ cpc' = "empty"
    /\ UNCHANGED <<mpc, is_recording, audio_queue, stream_open, attrs, produced,
                   audio_data, late, last_batch, stop_mid, start_returned>>
    /\ UNCHANGED nonRTVars

\* lines 41-43: one more iteration, the flag is cleared: break
ForBreak ==
    /\ cpc = "for"
    /\ idx < WindowFrames
    /\ ~is_recording
    /\ idx' = idx + 1
    /\ cpc' = "after_for"
    /\ UNCHANGED <<mpc, is_recording, audio_queue, stream_open, attrs, produced,
                   audio_data, late, last_batch, stop_mid, start_returned>>
    /\ UNCHANGED nonRTVars

\* line 41: the range is exhausted
ForExhausted ==
    /\ cpc = "for"
    /\ idx = WindowFrames
    /\ cpc' = "after_for"
    /\ UNCHANGED <<mpc, is_recording, audio_queue, stream_open, attrs, produced, idx,
                   audio_data, late, last_batch, stop_mid, start_returned>>
    /\ UNCHANGED nonRTVars

\* line 44: the queue is empty, the iteration collects nothing
QueueEmpty ==
    /\ cpc = "empty"
    /\ audio_queue = <<>>
    /\ cpc' = "for"
    /\ UNCHANGED <<mpc, is_recording, audio_queue, stream_open, attrs, produced, idx,
                   audio_data, late, last_batch, stop_mid, start_returned>>
    /\ UNCHANGED nonRTVars

\* line 44: the queue is not empty
QueueNotEmpty ==
    /\ cpc = "empty"
    /\ audio_queue # <<>>
    /\ cpc' = "get"
    /\ UNCHANGED <<mpc, is_recording, audio_queue, stream_open, attrs, produced, idx,
                   audio_data, late, last_batch, stop_mid, start_returned>>
    /\ UNCHANGED nonRTVars

\* line 45: audio_data.append(self.audio_queue.get())
QueueGet ==
    /\ cpc = "get"
    /\ audio_queue # <<>>
    /\ audio_data' = Append(audio_data, Head(audio_queue))
    /\ audio_queue' = Tail(audio_queue)
    /\ cpc' = "for"
    /\ UNCHANGED <<mpc, is_recording, stream_open, attrs, produced, idx, late,
                   last_batch, stop_mid, start_returned>>
    /\ UNCHANGED nonRTVars

\* line 47 false: nothing was collected
SkipEmptyBatch ==
    /\ cpc = "after_for"
    /\ audio_data = <<>>
    /\ cpc' = "while"
    /\ UNCHANGED <<mpc, is_recording, audio_queue, stream_open, attrs, produced, idx,
                   audio_data, late, last_batch, stop_mid, start_returned>>
    /\ UNCHANGED nonRTVars

\* lines 47-57: the collected frames are concatenated and passed to the model
TranscribeCall ==
    /\ cpc = "after_for"
    /\ audio_data # <<>>
    /\ last_batch' = [frames |-> audio_data, before_stop |-> is_recording]
    /\ cpc' = "transcribe"
    /\ UNCHANGED <<mpc, is_recording, audio_queue, stream_open, attrs, produced, idx,
                   audio_data, late, stop_mid, start_returned>>
    /\ UNCHANGED nonRTVars

\* lines 52-61: the recognition call returns and the segments are printed
TranscribeReturns ==
    /\ cpc = "transcribe"
    /\ cpc' = "while"
    /\ UNCHANGED <<mpc, is_recording, audio_queue, stream_open, attrs, produced, idx,
                   audio_data, late, last_batch, stop_mid, start_returned>>
    /\ UNCHANGED nonRTVars

ProcessAudio ==
    \/ ThreadBootstrap
    \/ WhileEnter
    \/ WhileExit
    \/ ForNext
    \/ ForBreak
    \/ ForExhausted
    \/ QueueEmpty
    \/ QueueNotEmpty
    \/ QueueGet
    \/ SkipEmptyBatch
    \/ TranscribeCall
    \/ TranscribeReturns

NextRT ==
    \/ StartFlag
    \/ OpenStream
    \/ AssignStream
    \/ CreateThread
    \/ StartThread
    \/ StartReturns
    \/ StopFlag
    \/ StopStream
    \/ StopStreamRaises
    \/ JoinThread
    \/ JoinRaises
    \/ Callback
    \/ ThreadBootstrap
    \/ WhileEnter
    \/ WhileExit
    \/ ForNext
    \/ ForBreak
    \/ ForExhausted
    \/ QueueEmpty
    \/ QueueNotEmpty
    \/ QueueGet
    \/ SkipEmptyBatch
    \/ TranscribeCall
    \/ TranscribeReturns

SpecRT == InitRT /\ [][NextRT]_vars

\* The process_audio thread is scheduled while it can run, every recognition
\* call returns, and stop_transcription, once entered, runs on.
FairSpecRT ==
    /\ InitRT /\ [][NextRT]_vars
    /\ WF_vars(ProcessAudio)
    /\ WF_vars(StopStream)
    /\ WF_vars(JoinThread)

C6_NoLateFrameProcessed ==
    /\ \A k \in 1..Len(audio_data) : audio_data[k] \notin late
    /\ \A k \in 1..Len(last_batch.frames) : last_batch.frames[k] \notin late

\* C8: every batch passed to the recognition call before a stop request holds
\* exactly a full window of int(RATE / CHUNK * RECORD_SECONDS) frames.
C8_FullWindowBeforeStop ==
    (last_batch # NoBatch /\ last_batch.before_stop) =>
        Len(last_batch.frames) = WindowFrames

====
